---- MODULE Spec2Model ----
(***************************************************************************)
(* race-dns-proxy: the race handler (src/src/handler.rs) and the           *)
(* self-healing DoH client (src/src/client.rs).                            *)
(*                                                                         *)
(* Several specifications share this module.  HandlerSpec is one call of   *)
(* RaceHandler::handle_request: the candidate selection, the fan-in loop   *)
(* over the candidate tasks in every completion order, the fallback and    *)
(* the final reply.  ClientSpec is one RetryableClient: its connection     *)
(* holder, its reconnect channel, its reconnection task and a number of    *)
(* concurrent calls of query.  Upstream clients share no state, so the     *)
(* handler sees each candidate's call of query only through its result.    *)
(* BacklogSpec is the same client started with its reconnect channel       *)
(* nearly full or full.  MatchSpec is one call of matches_domain.          *)
(* FairClientSpec and FairHandlerSpec add the fairness of the runtime.     *)
(***************************************************************************)
EXTENDS Integers, Sequences, FiniteSets, TLC

\* ------------------------------------------------------------------ bounds

\* Upstreams in the provider registry (dns_clients).
NumUpstreams == 2
\* Transaction ids are 0..MaxId (u16 in the code; only equality matters).
MaxId == 1
\* Concurrent calls of RetryableClient::query on one upstream client.
NumQueries == 2
\* Longest query name and longest rule pattern given to matches_domain.
MaxNameLen == 4
MaxPatLen == 3
\* Signals the reconnection task receives in a behaviour.
MaxReceived == 3

\* --------------------------------------------------------------- constants

ServFail == "ServFail"
NXDomain == "NXDomain"
NoError == "NoError"
Refused == "Refused"
ResponseCodes == {NoError, NXDomain, ServFail, Refused}

None == 0
\* No ResponseInfo returned yet.
NoInfo == [id |-> 0, code |-> "none"]

\* ----------------------------------------------------------------- strings
\* A string is a sequence of one-character strings.

\* str::ends_with
EndsWith(s, p) ==
    /\ Len(p) <= Len(s)
    /\ SubSeq(s, Len(s) - Len(p) + 1, Len(s)) = p

\* str::trim_end_matches('.'): every trailing dot is removed.
RECURSIVE TrimEndDots(_)
TrimEndDots(s) ==
    IF s # <<>> /\ s[Len(s)] = "."
    THEN TrimEndDots(SubSeq(s, 1, Len(s) - 1))
    ELSE s

\* IsDomainMatch without the test of the byte before the suffix.
IsDomainMatchNoBoundary(query, pattern) ==
    IF query = pattern THEN TRUE
    ELSE EndsWith(query, pattern)

\* is_domain_match(query, pattern)
IsDomainMatch(query, pattern) ==
    IF query = pattern THEN TRUE
    ELSE IF EndsWith(query, pattern)
         THEN LET prefix_len == Len(query) - Len(pattern)
              IN  IF prefix_len > 0 THEN query[prefix_len] = "." ELSE FALSE
         ELSE FALSE

\* RaceHandler::matches_domain(query_name, domain_rules)
MatchesDomain(query_name, domain_rules) ==
    LET includes == domain_rules[1]
        excludes == domain_rules[2]
        trimmed == TrimEndDots(query_name)
    IN  IF includes = <<>> THEN TRUE
        ELSE IF \E k \in DOMAIN excludes : EndsWith(trimmed, excludes[k])
             THEN FALSE
             ELSE \E k \in DOMAIN includes : IsDomainMatch(trimmed, includes[k])

\* The rule sets and query names the registry and the request are drawn from.
Pat_a == <<"a">>
Pat_ba == <<"b", ".", "a">>
Pat_d == <<"d">>

Universal == <<<<>>, <<>>>>
RuleSets ==
    { Universal,
      <<<<Pat_ba>>, <<>>>>,
      <<<<Pat_a>>, <<Pat_ba>>>>,
      <<<<Pat_d, Pat_ba>>, <<>>>> }

QueryNames ==
    { <<"a", ".">>,
      <<"b", ".", "a", ".">>,
      <<"c", ".", "b", ".", "a", ".">>,
      <<"c", "b", ".", "a", ".">>,
      <<"c", ".", "d">>,
      <<"b", ".">> }

\* The characters of query names: two letters and the label separator.
\* request.query() is a LowerQuery, so the name is in lower case.
NameAlphabet == {"a", "b", "."}

\* The characters of patterns: a letter in both cases and the separator.
PatternAlphabet == {"a", "A", "."}

StringsUpTo(alphabet, n) == UNION { [1 .. k -> alphabet] : k \in 0 .. n }

\* What Name::to_string yields (handler.rs 76): the root ".", or non-empty
\* labels joined by ".", with or without the final dot.
NameStrings ==
    { s \in StringsUpTo(NameAlphabet, MaxNameLen) :
        /\ s # <<>>
        /\ s[1] = "." => Len(s) = 1
        /\ \A k \in 1 .. Len(s) - 1 : ~(s[k] = "." /\ s[k + 1] = ".") }

\* Patterns are the strings of the configuration file, unchecked
\* (config.rs 38-48).
PatternStrings == StringsUpTo(PatternAlphabet, MaxPatLen)

\* One include pattern, and no or one exclude pattern.
MatchRules ==
    { <<<<p>>, ex>> : p \in PatternStrings,
                      ex \in {<<>>} \cup { <<e>> : e \in PatternStrings } }

Ids == 0 .. MaxId
Upstreams == 1 .. NumUpstreams

\* --------------------------------------------------------------- variables

VARIABLES
    \* ---- handle_request
    dns_clients,          \* the registry: upstream -> domain_rules
    request_id,
    query_name,
    hpc,                  \* "start", "drain", "fallback", "finish", "done"
    clients_to_use,       \* sequence of upstreams, registry order
    queried,              \* upstreams whose query() was called
    remaining,            \* candidate tasks not yet completed
    responses,            \* sequence of [code, message, name]
    has_sent_response,
    final_response_code,
    sink,                 \* every send_response call: [reply, ok, via]
    arrivals,             \* completion log: [from, ok, code, foreign_id]
    info,                 \* the ResponseInfo returned, NoInfo before
    \* ---- one RetryableClient
    holder,               \* ClientHolder: [client, version]
    reconnect_chan,       \* signals queued in the reconnect channel
    rpc,                  \* reconnection task: "observe", "connecting",
                          \*   "sleep", "recv"
    retry_count,
    retry_delay,
    qpc,                  \* call of query: "idle", "loop", "querying",
                          \*   "signal", "sleep", "done"
    retries,
    snap,                 \* client_holder, the snapshot of the iteration
    reconnect_sent,
    qresult,              \* "none", "ok" or "err"
    invalidations,        \* every clearing of the holder by a query:
                          \*   [by, snap_version, used, at_version, cleared]
    attempts,             \* loop iterations of the call of query so far
    signals,              \* reconnect signals the call of query has sent
    run_holder,           \* handle_reconnect's client_holder (line 186)
    unreachable_seen,     \* the run met a network-unreachable error
    received,             \* signals the reconnection tasks have received
    \* ---- one call of matches_domain
    m_name,               \* query_name
    m_rules,              \* domain_rules
    mpc,                  \* "idle", "call", "done"
    m_result              \* the value returned

hvars == <<dns_clients, request_id, query_name, hpc, clients_to_use, queried,
           remaining, responses, has_sent_response, final_response_code,
           sink, arrivals, info>>

cvars == <<holder, reconnect_chan, rpc, retry_count, retry_delay, qpc,
           retries, snap, reconnect_sent, qresult, invalidations, attempts,
           signals, run_holder, unreachable_seen, received>>

mvars == <<m_name, m_rules, mpc, m_result>>

vars == <<hvars, cvars, mvars>>

\* No call of matches_domain in progress.
MatchIdle ==
    /\ m_name = <<>>
    /\ m_rules = Universal
    /\ mpc = "idle"
    /\ m_result = FALSE

\* ------------------------------------------------------------ RetryableClient

\* query: MAX_RETRIES
QUERY_MAX_RETRIES == 6
\* handle_reconnect: INITIAL_RETRY_DELAY, MAX_RETRY_DELAY, MAX_RETRIES
RECONNECT_INITIAL_RETRY_DELAY == 300
RECONNECT_MAX_RETRY_DELAY == 3000
RECONNECT_MAX_RETRIES == 5
\* tokio::sync::mpsc::channel(100)
ReconnectChannelCapacity == 100

Queries == 1 .. NumQueries

\* ReconnectTasks with a second task running handle_reconnect.
ReconnectTasksTwo == {"reconnect", "reconnect2"}

\* The tasks new() spawns to run handle_reconnect: one.
ReconnectTasks == {"reconnect"}

Min(a, b) == IF a <= b THEN a ELSE b

\* InvalidateIfCurrent without the version increment.
InvalidateNoBump(inner, snap_version) ==
    IF inner.version = snap_version
    THEN [client |-> None, version |-> inner.version]
    ELSE inner

\* InvalidateIfCurrent without the version test.
InvalidateAlways(inner, snap_version) ==
    [client |-> None, version |-> inner.version + 1]

\* The closure of query's send_if_modified: clear the holder if its version
\* is still the snapshot's.
InvalidateIfCurrent(inner, snap_version) ==
    IF inner.version = snap_version
    THEN [client |-> None, version |-> inner.version + 1]
    ELSE inner

\* StoreNewClient without the version increment.
StoreNewClientNoBump(inner, new_client) ==
    [client |-> new_client, version |-> inner.version]

\* The closure of handle_reconnect's send_if_modified: store the new client.
StoreNewClient(inner, new_client) ==
    [client |-> new_client, version |-> inner.version + 1]

\* The state new() leaves: a disconnected holder at version 0, an empty
\* channel, the reconnection task about to make its first handle_reconnect
\* call, and no call of query in progress.
ClientIdle ==
    /\ holder = [client |-> None, version |-> 0]
    /\ reconnect_chan = 0
    /\ rpc = [t \in ReconnectTasks |-> "observe"]
    /\ retry_count = [t \in ReconnectTasks |-> 0]
    /\ retry_delay = [t \in ReconnectTasks |-> RECONNECT_INITIAL_RETRY_DELAY]
    /\ qpc = [q \in Queries |-> "idle"]
    /\ retries = [q \in Queries |-> 0]
    /\ snap = [q \in Queries |-> [client |-> None, version |-> 0]]
    /\ reconnect_sent = [q \in Queries |-> FALSE]
    /\ qresult = [q \in Queries |-> "none"]
    /\ invalidations = <<>>
    /\ attempts = [q \in Queries |-> 0]
    /\ signals = [q \in Queries |-> 0]
    /\ run_holder = [t \in ReconnectTasks |-> [client |-> None, version |-> 0]]
    /\ unreachable_seen = [t \in ReconnectTasks |-> FALSE]
    /\ received = 0

\* ---- query

\* A call of query begins (lines 101-106).
StartQuery(q) ==
    /\ qpc[q] = "idle"
    /\ qpc' = [qpc EXCEPT ![q] = "loop"]
    /\ retries' = [retries EXCEPT ![q] = 0]
    /\ reconnect_sent' = [reconnect_sent EXCEPT ![q] = FALSE]
    /\ attempts' = [attempts EXCEPT ![q] = 0]
    /\ signals' = [signals EXCEPT ![q] = 0]
    /\ UNCHANGED <<holder, reconnect_chan, rpc, retry_count, retry_delay,
                   snap, qresult, invalidations, run_holder,
                   unreachable_seen, received>>

\* BudgetExhausted with a strict comparison.
BudgetExhaustedStrict(n) == n > QUERY_MAX_RETRIES

\* Line 156: retries >= MAX_RETRIES.
BudgetExhausted(n) == n >= QUERY_MAX_RETRIES

\* Lines 156-173, up to the send: the budget check and the latch.
AfterAttempt(q) ==
    IF BudgetExhausted(retries[q])
    THEN /\ qresult' = [qresult EXCEPT ![q] = "err"]
         /\ qpc' = [qpc EXCEPT ![q] = "done"]
    ELSE /\ qresult' = qresult
         /\ qpc' = [qpc EXCEPT ![q] = IF reconnect_sent[q] THEN "sleep"
                                                          ELSE "signal"]

\* BorrowAndUpdate keeping the snapshot of the iteration before.
BorrowKeepPrevious(current, previous) == previous

\* Lines 109-112: receiver.borrow_and_update() cloned, in every iteration.
BorrowAndUpdate(current, previous) == current

\* Lines 109-114: the snapshot; with a handle the DoH query is issued.
Snapshot(q) ==
    /\ qpc[q] = "loop"
    /\ snap' = [snap EXCEPT ![q] = BorrowAndUpdate(holder, snap[q])]
    /\ attempts' = [attempts EXCEPT ![q] = attempts[q] + 1]
    /\ IF snap'[q].client # None
       THEN /\ qpc' = [qpc EXCEPT ![q] = "querying"]
            /\ qresult' = qresult
       ELSE AfterAttempt(q)
    /\ UNCHANGED <<holder, reconnect_chan, rpc, retry_count, retry_delay,
                   retries, reconnect_sent, invalidations, signals,
                   run_holder, unreachable_seen, received>>

\* Lines 121-131: the upstream answers within the timeout.
QueryOk(q) ==
    /\ qpc[q] = "querying"
    /\ qresult' = [qresult EXCEPT ![q] = "ok"]
    /\ qpc' = [qpc EXCEPT ![q] = "done"]
    /\ UNCHANGED <<holder, reconnect_chan, rpc, retry_count, retry_delay,
                   retries, snap, reconnect_sent, invalidations, attempts,
                   signals, run_holder, unreachable_seen, received>>

\* Lines 132-154: the DoH query fails or times out; the versioned
\* invalidation follows.
QueryFail(q, kind) ==
    /\ qpc[q] = "querying"
    /\ kind \in {"error", "timeout"}
    /\ holder' = InvalidateIfCurrent(holder, snap[q].version)
    /\ invalidations' =
           IF holder' # holder
           THEN Append(invalidations,
                       [by |-> q, snap_version |-> snap[q].version,
                        used |-> snap[q].client,
                        at_version |-> holder.version,
                        cleared |-> holder.client])
           ELSE invalidations
    /\ AfterAttempt(q)
    /\ UNCHANGED <<reconnect_chan, rpc, retry_count, retry_delay, retries,
                   snap, reconnect_sent, attempts, signals, run_holder,
                   unreachable_seen, received>>

\* LatchAfterSend leaving the latch as it was.
LatchAfterSendKeep(sent) == sent

\* Line 163: reconnect_sent = true, once send returned Ok.
LatchAfterSend(sent) == TRUE

\* HasRoom for a channel that never has room.
HasRoomNever(queued) == FALSE

\* Sender::send completes once the bounded channel has a free slot.
HasRoom(queued) == queued < ReconnectChannelCapacity

\* Lines 160-173: reconnect_tx.send(()).await waits for room in the channel.
SendReconnect(q) ==
    /\ qpc[q] = "signal"
    /\ HasRoom(reconnect_chan)
    /\ reconnect_chan' = reconnect_chan + 1
    /\ reconnect_sent' =
           [reconnect_sent EXCEPT ![q] = LatchAfterSend(reconnect_sent[q])]
    /\ signals' = [signals EXCEPT ![q] = signals[q] + 1]
    /\ qpc' = [qpc EXCEPT ![q] = "sleep"]
    /\ UNCHANGED <<holder, rpc, retry_count, retry_delay, retries, snap,
                   qresult, invalidations, attempts, run_holder,
                   unreachable_seen, received>>

\* Lines 175-179: the backoff sleep ends.
QueryWake(q) ==
    /\ qpc[q] = "sleep"
    /\ retries' = [retries EXCEPT ![q] = retries[q] + 1]
    /\ qpc' = [qpc EXCEPT ![q] = "loop"]
    /\ UNCHANGED <<holder, reconnect_chan, rpc, retry_count, retry_delay,
                   snap, reconnect_sent, qresult, invalidations, attempts,
                   signals, run_holder, unreachable_seen, received>>

\* ---- the reconnection task

\* handle_reconnect returns: its locals are gone, the task waits in recv.
Returned(t) ==
    /\ rpc' = [rpc EXCEPT ![t] = "recv"]
    /\ retry_count' = [retry_count EXCEPT ![t] = 0]
    /\ retry_delay' = [retry_delay EXCEPT ![t] = RECONNECT_INITIAL_RETRY_DELAY]
    /\ run_holder' =
           [run_holder EXCEPT ![t] = [client |-> None, version |-> 0]]
    /\ unreachable_seen' = [unreachable_seen EXCEPT ![t] = FALSE]

\* Lines 184-197: handle_reconnect observes the holder.
Observe(t) ==
    /\ rpc[t] = "observe"
    /\ IF holder.client # None
       THEN Returned(t)
       ELSE /\ rpc' = [rpc EXCEPT ![t] = "connecting"]
            /\ retry_count' = [retry_count EXCEPT ![t] = 0]
            /\ retry_delay' =
                   [retry_delay EXCEPT ![t] = RECONNECT_INITIAL_RETRY_DELAY]
            /\ run_holder' = [run_holder EXCEPT ![t] = holder]
            /\ unreachable_seen' = [unreachable_seen EXCEPT ![t] = FALSE]
    /\ UNCHANGED <<holder, reconnect_chan, qpc, retries, snap, reconnect_sent,
                   qresult, invalidations, attempts, signals, received>>

\* Lines 201-210: create_client succeeds and the new client is stored.
ConnectOk(t) ==
    /\ rpc[t] = "connecting"
    /\ holder' = StoreNewClient(holder, holder.version + 1)
    /\ Returned(t)
    /\ UNCHANGED <<reconnect_chan, qpc, retries, snap, reconnect_sent,
                   qresult, invalidations, attempts, signals, received>>

\* DelayAfterError without the jump.
DelayAfterErrorNoJump(delay, unreachable) == delay

\* Lines 217-219: a network-unreachable error sets retry_delay to
\* MAX_RETRY_DELAY.
DelayAfterError(delay, unreachable) ==
    IF unreachable THEN RECONNECT_MAX_RETRY_DELAY ELSE delay

\* Lines 211-223: create_client fails.
ConnectErr(t, unreachable) ==
    /\ rpc[t] = "connecting"
    /\ retry_delay' =
           [retry_delay EXCEPT
              ![t] = DelayAfterError(retry_delay[t], unreachable)]
    /\ unreachable_seen' =
           [unreachable_seen EXCEPT ![t] = unreachable_seen[t] \/ unreachable]
    /\ rpc' = [rpc EXCEPT ![t] = "sleep"]
    /\ UNCHANGED <<holder, reconnect_chan, retry_count, qpc, retries, snap,
                   reconnect_sent, qresult, invalidations, attempts, signals,
                   run_holder, received>>

\* GivesUp with a strict comparison.
GivesUpStrict(count) == count > RECONNECT_MAX_RETRIES

\* Lines 225-229: retry_count >= MAX_RETRIES, after the increment.
GivesUp(count) == count >= RECONNECT_MAX_RETRIES

\* Lines 223-229: the sleep ends; the next attempt, or the run gives up.
ReconnectWake(t) ==
    /\ rpc[t] = "sleep"
    /\ IF GivesUp(retry_count[t] + 1)
       THEN Returned(t)
       ELSE /\ retry_delay' =
                   [retry_delay EXCEPT
                      ![t] = Min(retry_delay[t] * 2, RECONNECT_MAX_RETRY_DELAY)]
            /\ retry_count' = [retry_count EXCEPT ![t] = retry_count[t] + 1]
            /\ rpc' = [rpc EXCEPT ![t] = "connecting"]
            /\ UNCHANGED <<run_holder, unreachable_seen>>
    /\ UNCHANGED <<holder, reconnect_chan, qpc, retries, snap, reconnect_sent,
                   qresult, invalidations, attempts, signals, received>>

\* Line 64: reconnect_rx.recv() yields a signal.
RecvSignal(t) ==
    /\ rpc[t] = "recv"
    /\ reconnect_chan > 0
    /\ received < MaxReceived
    /\ received' = received + 1
    /\ reconnect_chan' = reconnect_chan - 1
    /\ rpc' = [rpc EXCEPT ![t] = "observe"]
    /\ UNCHANGED <<holder, retry_count, retry_delay, qpc, retries, snap,
                   reconnect_sent, qresult, invalidations, attempts, signals,
                   run_holder, unreachable_seen>>


\* ----------------------------------------------------------- handle_request

SeqToSet(s) == { s[k] : k \in DOMAIN s }

\* The upstreams of S in registry order (iter().filter().collect()).
RECURSIVE InOrder(_)
InOrder(S) ==
    IF S = {} THEN <<>>
    ELSE LET last == CHOOSE m \in S : \A n \in S : n <= m
         IN  Append(InOrder(S \ {last}), last)

\* matching_clients
MatchingClients(registry, name) ==
    InOrder({ i \in DOMAIN registry :
                 registry[i][1] # <<>> /\ MatchesDomain(name, registry[i]) })

\* the universal providers
DefaultClients(registry) ==
    InOrder({ i \in DOMAIN registry : registry[i][1] = <<>> })

\* ClientsToUse with the universal providers always added.
ClientsToUsePlusDefault(registry, name) ==
    InOrder(SeqToSet(MatchingClients(registry, name))
            \cup SeqToSet(DefaultClients(registry)))

ClientsToUse(registry, name) ==
    IF MatchingClients(registry, name) = <<>>
    THEN DefaultClients(registry)
    ELSE MatchingClients(registry, name)

\* The header a ResponseInfo is made from.
Header(id, code) == [id |-> id, code |-> code]

\* create_servfail_response(request_id)
CreateServfailResponse(id) == Header(id, ServFail)

\* SetId without the overwrite: the upstream's id is kept.
SetIdKeep(message, id) == message

\* message.set_id(request_id)
SetId(message, id) == [message EXCEPT !.id = id]

\* Acceptable with the NXDomain test dropped.
AcceptableNotServFail(code) == code # ServFail

\* response_code != ServFail && response_code != NXDomain
Acceptable(code) == code # ServFail /\ code # NXDomain

\* MessageResponseBuilder::build(*message.header(), message.answers(), ...):
\* the reply carries the message's header and its sections.
BuildResponse(message) ==
    [id |-> message.id, code |-> message.code, answers |-> message.answers]

\* ServfailReply with the id of Header::new() left in place.
ServfailReplyNoId(id) == [id |-> 0, code |-> ServFail, answers |-> None]

\* The reply of the all-failed branch: a fresh header, empty sections.
ServfailReply(id) == [id |-> id, code |-> ServFail, answers |-> None]

\* SentAfter with the flag never raised.
SentAfterNever(ok) == FALSE

\* SentAfter counting a failed send as sent.
SentAfterAlways(ok) == TRUE

\* has_sent_response after a send_response call that returned ok
SentAfter(ok) == ok

\* Index in responses of the fallback selection.
FirstWith(rs, code) ==
    IF \E k \in DOMAIN rs : rs[k].code = code
    THEN CHOOSE k \in DOMAIN rs :
            /\ rs[k].code = code
            /\ \A j \in 1 .. k - 1 : rs[j].code # code
    ELSE 0

\* SelectFallback with ServFail preferred over NXDomain.
SelectFallbackServFailFirst(rs) ==
    IF FirstWith(rs, ServFail) # 0 THEN FirstWith(rs, ServFail)
    ELSE IF FirstWith(rs, NXDomain) # 0 THEN FirstWith(rs, NXDomain)
    ELSE 1

SelectFallback(rs) ==
    IF FirstWith(rs, NXDomain) # 0 THEN FirstWith(rs, NXDomain)
    ELSE IF FirstWith(rs, ServFail) # 0 THEN FirstWith(rs, ServFail)
    ELSE 1

HandlerInit ==
    /\ dns_clients \in [Upstreams -> RuleSets]
    /\ request_id \in Ids
    /\ query_name \in QueryNames
    /\ hpc = "start"
    /\ clients_to_use = <<>>
    /\ queried = {}
    /\ remaining = {}
    /\ responses = <<>>
    /\ has_sent_response = FALSE
    /\ final_response_code = ServFail
    /\ sink = <<>>
    /\ arrivals = <<>>
    /\ info = NoInfo
    /\ ClientIdle
    /\ MatchIdle

\* Lines 74-140: candidate selection and fan-out.
SelectCandidates ==
    /\ hpc = "start"
    /\ clients_to_use' = ClientsToUse(dns_clients, query_name)
    /\ IF clients_to_use' = <<>>
       THEN /\ info' = CreateServfailResponse(request_id)
            /\ hpc' = "done"
            /\ UNCHANGED <<queried, remaining>>
       ELSE /\ queried' = SeqToSet(clients_to_use')
            /\ remaining' = SeqToSet(clients_to_use')
            /\ hpc' = "drain"
            /\ info' = info
    /\ final_response_code' = ServFail
    /\ responses' = <<>>
    /\ has_sent_response' = FALSE
    /\ UNCHANGED <<dns_clients, request_id, query_name, sink, arrivals>>
    /\ UNCHANGED <<cvars, mvars>>

\* AfterLoop leaving the loop at the first completion.
AfterLoopFirst(rest) == "fallback"

\* Line 142: while !remaining.is_empty().
AfterLoop(rest) == IF rest = {} THEN "fallback" ELSE "drain"

\* Lines 144-196: a candidate task completes with a response.
TaskOk(i, code, uid, ok) ==
    /\ hpc = "drain"
    /\ i \in remaining
    /\ LET response == [id |-> uid, code |-> code, answers |-> i]
           message == SetId(response, request_id)
       IN  /\ responses' = Append(responses,
                                  [code |-> code, message |-> message, name |-> i])
           /\ arrivals' = Append(arrivals,
                                 [from |-> i, ok |-> TRUE, code |-> code,
                                  foreign_id |-> uid # request_id])
           /\ IF ~has_sent_response /\ Acceptable(code)
              THEN /\ sink' = Append(sink, [reply |-> BuildResponse(message),
                                            ok |-> ok, via |-> "race"])
                   /\ has_sent_response' = SentAfter(ok)
                   /\ final_response_code' =
                          IF ok THEN code ELSE final_response_code
              ELSE /\ ok
                   /\ UNCHANGED <<sink, has_sent_response, final_response_code>>
    /\ remaining' = remaining \ {i}
    /\ hpc' = AfterLoop(remaining')
    /\ UNCHANGED <<dns_clients, request_id, query_name, clients_to_use,
                   queried, info>>
    /\ UNCHANGED <<cvars, mvars>>

\* Lines 197-201: a candidate task completes with an error.
TaskErr(i) ==
    /\ hpc = "drain"
    /\ i \in remaining
    /\ arrivals' = Append(arrivals, [from |-> i, ok |-> FALSE, code |-> ServFail,
                                      foreign_id |-> FALSE])
    /\ remaining' = remaining \ {i}
    /\ hpc' = AfterLoop(remaining')
    /\ UNCHANGED <<dns_clients, request_id, query_name, clients_to_use,
                   queried, responses, has_sent_response, final_response_code,
                   sink, info>>
    /\ UNCHANGED <<cvars, mvars>>

\* Lines 205-240: the fallback.
Fallback(ok) ==
    /\ hpc = "fallback"
    /\ IF ~has_sent_response /\ responses # <<>>
       THEN LET selected == responses[SelectFallback(responses)]
            IN  /\ sink' = Append(sink, [reply |-> BuildResponse(selected.message),
                                         ok |-> ok, via |-> "fallback"])
                /\ has_sent_response' = SentAfter(ok)
                /\ final_response_code' =
                       IF ok THEN selected.code ELSE final_response_code
       ELSE /\ ok
            /\ UNCHANGED <<sink, has_sent_response, final_response_code>>
    /\ hpc' = "finish"
    /\ UNCHANGED <<dns_clients, request_id, query_name, clients_to_use,
                   queried, remaining, responses, arrivals, info>>
    /\ UNCHANGED <<cvars, mvars>>

\* ReportedCode taking the code of the first recorded response.
ReportedCodeFirstRecorded(final, rs) == rs[1].code

\* Line 247: the ResponseInfo of a sent reply carries final_response_code,
\* whatever the recorded responses are.
ReportedCode(final, rs) == final

\* Lines 242-270: the ResponseInfo, and the ServFail reply when nothing was sent.
Finish(ok) ==
    /\ hpc = "finish"
    /\ IF has_sent_response
       THEN /\ ok
            /\ info' = Header(request_id,
                            ReportedCode(final_response_code, responses))
            /\ sink' = sink
       ELSE /\ sink' = Append(sink, [reply |-> ServfailReply(request_id),
                                     ok |-> ok, via |-> "servfail"])
            /\ info' = Header(request_id, ServFail)
    /\ hpc' = "done"
    /\ UNCHANGED <<dns_clients, request_id, query_name, clients_to_use,
                   queried, remaining, responses, has_sent_response,
                   final_response_code, arrivals>>
    /\ UNCHANGED <<cvars, mvars>>

HandlerNext ==
    \/ SelectCandidates
    \/ \E i \in Upstreams, code \in ResponseCodes, uid \in Ids, ok \in BOOLEAN :
          TaskOk(i, code, uid, ok)
    \/ \E i \in Upstreams : TaskErr(i)
    \/ \E ok \in BOOLEAN : Fallback(ok)
    \/ \E ok \in BOOLEAN : Finish(ok)

HandlerSpec == HandlerInit /\ [][HandlerNext]_vars

\* No request in progress.
HandlerIdle ==
    /\ dns_clients = [i \in Upstreams |-> Universal]
    /\ request_id = 0
    /\ query_name = <<>>
    /\ hpc = "idle"
    /\ clients_to_use = <<>>
    /\ queried = {}
    /\ remaining = {}
    /\ responses = <<>>
    /\ has_sent_response = FALSE
    /\ final_response_code = ServFail
    /\ sink = <<>>
    /\ arrivals = <<>>
    /\ info = NoInfo

ClientInit == ClientIdle /\ HandlerIdle /\ MatchIdle

ClientNext ==
    \/ \E q \in Queries : StartQuery(q) /\ UNCHANGED <<hvars, mvars>>
    \/ \E q \in Queries : Snapshot(q) /\ UNCHANGED <<hvars, mvars>>
    \/ \E q \in Queries : QueryOk(q) /\ UNCHANGED <<hvars, mvars>>
    \/ \E q \in Queries, kind \in {"error", "timeout"} :
          QueryFail(q, kind) /\ UNCHANGED <<hvars, mvars>>
    \/ \E q \in Queries : SendReconnect(q) /\ UNCHANGED <<hvars, mvars>>
    \/ \E q \in Queries : QueryWake(q) /\ UNCHANGED <<hvars, mvars>>
    \/ \E t \in ReconnectTasks : Observe(t) /\ UNCHANGED <<hvars, mvars>>
    \/ \E t \in ReconnectTasks : ConnectOk(t) /\ UNCHANGED <<hvars, mvars>>
    \/ \E t \in ReconnectTasks, unreachable \in BOOLEAN :
          ConnectErr(t, unreachable) /\ UNCHANGED <<hvars, mvars>>
    \/ \E t \in ReconnectTasks : ReconnectWake(t) /\ UNCHANGED <<hvars, mvars>>
    \/ \E t \in ReconnectTasks : RecvSignal(t) /\ UNCHANGED <<hvars, mvars>>

ClientSpec == ClientInit /\ [][ClientNext]_vars

\* Signals left in the reconnect channel by earlier calls of query: each call
\* made while the holder is disconnected sends one signal (lines 160-163)
\* and the reconnection task takes one signal per run (lines 64-66), so
\* during a run the queue grows by one per call, up to the capacity.
Backlogs == {ReconnectChannelCapacity - 1, ReconnectChannelCapacity}

\* The client during the first run of handle_reconnect, the first
\* create_client still pending, after earlier calls of query have ended
\* with their signals still queued; no call of query in progress.
BacklogInit ==
    /\ holder = [client |-> None, version |-> 0]
    /\ reconnect_chan \in Backlogs
    /\ rpc = [t \in ReconnectTasks |-> "connecting"]
    /\ retry_count = [t \in ReconnectTasks |-> 0]
    /\ retry_delay = [t \in ReconnectTasks |-> RECONNECT_INITIAL_RETRY_DELAY]
    /\ qpc = [q \in Queries |-> "idle"]
    /\ retries = [q \in Queries |-> 0]
    /\ snap = [q \in Queries |-> [client |-> None, version |-> 0]]
    /\ reconnect_sent = [q \in Queries |-> FALSE]
    /\ qresult = [q \in Queries |-> "none"]
    /\ invalidations = <<>>
    /\ attempts = [q \in Queries |-> 0]
    /\ signals = [q \in Queries |-> 0]
    /\ run_holder = [t \in ReconnectTasks |-> holder]
    /\ unreachable_seen = [t \in ReconnectTasks |-> FALSE]
    /\ received = 0
    /\ HandlerIdle
    /\ MatchIdle

BacklogSpec == BacklogInit /\ [][ClientNext]_vars

\* ------------------------------------------------------------ matches_domain

\* A call of matches_domain on any name and rule set.
MatchInit ==
    /\ m_name \in NameStrings
    /\ m_rules \in MatchRules
    /\ mpc = "call"
    /\ m_result = FALSE
    /\ HandlerIdle
    /\ ClientIdle

\* Lines 43-64: the call returns.
Match ==
    /\ mpc = "call"
    /\ m_result' = MatchesDomain(m_name, m_rules)
    /\ mpc' = "done"
    /\ UNCHANGED <<m_name, m_rules, hvars, cvars>>

MatchNext == Match

MatchSpec == MatchInit /\ [][MatchNext]_vars

\* ----------------------------------------------------------------- fairness

\* The steps of one call of query after its start.
QueryStep(q) ==
    /\ \/ Snapshot(q)
       \/ QueryOk(q)
       \/ \E kind \in {"error", "timeout"} : QueryFail(q, kind)
       \/ SendReconnect(q)
       \/ QueryWake(q)
    /\ UNCHANGED <<hvars, mvars>>

\* The steps of a reconnection task.
ReconnectStep(t) ==
    /\ \/ Observe(t)
       \/ ConnectOk(t)
       \/ \E unreachable \in BOOLEAN : ConnectErr(t, unreachable)
       \/ ReconnectWake(t)
       \/ RecvSignal(t)
    /\ UNCHANGED <<hvars, mvars>>

\* The runtime polls every spawned task that can make progress; the DoH
\* query is under a 3 s timeout (line 115), sleeps end, create_client
\* returns.
ClientFairness ==
    /\ \A q \in Queries : WF_vars(QueryStep(q))
    /\ \A t \in ReconnectTasks : WF_vars(ReconnectStep(t))

FairClientSpec == ClientSpec /\ ClientFairness

\* A candidate task completes once its call of query has returned; the
\* loop then takes the completion, and the straight-line code after the
\* loop runs.
FairHandlerSpec == HandlerSpec /\ WF_vars(HandlerNext)

\* ------------------------------------------------------- handler properties

\* The candidate tasks were created and polled.
FannedOut == queried # {}

OkWrites == { k \in DOMAIN sink : sink[k].ok }

IsOkArrival(a) == a.ok
OkArrivals == SelectSeq(arrivals, IsOkArrival)

IsAcceptableArrival(a) == a.ok /\ a.code \notin {ServFail, NXDomain}
AcceptableArrivals == SelectSeq(arrivals, IsAcceptableArrival)

IsRaceSend(s) == s.via = "race"
RaceSends == SelectSeq(sink, IsRaceSend)

Vias == { sink[k].via : k \in DOMAIN sink }

\* C1: every reply passed to the response sink (forwarded in the race, the
\* fallback reply, or the synthesized ServFail) carries the id of the request,
\* whatever id the upstream message carried.
Thm_C1_ReplyIdIsRequestId ==
    \A k \in DOMAIN sink : sink[k].reply.id = request_id

\* C1 witness: a request whose upstream messages all carried another id, and
\* for which a race reply, a fallback reply and the ServFail were all passed
\* to the sink (the first two sends failed).
Wit_C1 ==
    /\ hpc = "done"
    /\ Vias = {"race", "fallback", "servfail"}
    /\ OkArrivals # <<>>
    /\ \A k \in DOMAIN OkArrivals : OkArrivals[k].foreign_id

\* C2 as stated: when the request is done, exactly one reply was written if
\* some upstream returned a message, and at most one, a ServFail, if every
\* upstream failed.
Orig_C2_ExactlyOneReply ==
    (hpc = "done" /\ FannedOut) =>
        IF OkArrivals # <<>>
        THEN Cardinality(OkWrites) = 1
        ELSE /\ Cardinality(OkWrites) <= 1
             /\ \A k \in DOMAIN sink : sink[k].reply.code = ServFail

\* C2 amended: never are two replies written for one request; when the
\* request is done and some upstream returned a message, exactly one reply
\* was written unless every send_response call of the request failed; when
\* every upstream failed, the only reply passed to the sink is one ServFail.
Thm_C2_AtMostOneReply ==
    /\ Cardinality(OkWrites) <= 1
    /\ (hpc = "done" /\ FannedOut) =>
          /\ sink # <<>>
          /\ OkArrivals # <<>> =>
                \/ Cardinality(OkWrites) = 1
                \/ \A k \in DOMAIN sink : ~sink[k].ok
          /\ OkArrivals = <<>> =>
                /\ Len(sink) = 1
                /\ sink[1].reply.code = ServFail

\* C2 witness: two upstreams returned a forwardable message, the first send
\* failed, the second was written, and the request is done with one reply.
Wit_C2 ==
    /\ hpc = "done"
    /\ Len(AcceptableArrivals) = 2
    /\ Len(sink) = 2
    /\ ~sink[1].ok
    /\ sink[2].ok

\* C3 as stated: once a response that is neither ServFail nor NXDomain has
\* arrived, the reply the client is sent is the first such arrival's, and no
\* other.
Orig_C3_FirstAcceptableOnly ==
    AcceptableArrivals # <<>> =>
        \A k \in DOMAIN sink :
            sink[k].ok => sink[k].reply.answers = AcceptableArrivals[1].from

\* C3 amended: the replies passed to the sink during fan-in are, in arrival
\* order, the responses that are neither ServFail nor NXDomain, up to and
\* including the first whose send succeeds: the first reply passed to the
\* sink is the first such arrival, an NXDomain or ServFail is never sent
\* during fan-in, and a later arrival is sent only if every earlier send
\* failed.
Thm_C3_FirstAcceptableWins ==
    /\ hpc = "drain" => RaceSends = sink
    /\ Len(RaceSends) <= Len(AcceptableArrivals)
    /\ \A k \in DOMAIN RaceSends :
          /\ RaceSends[k].reply.answers = AcceptableArrivals[k].from
          /\ RaceSends[k].reply.code = AcceptableArrivals[k].code
          /\ k < Len(RaceSends) => ~RaceSends[k].ok
    /\ (RaceSends = <<>> \/ ~RaceSends[Len(RaceSends)].ok) =>
          Len(RaceSends) = Len(AcceptableArrivals)

\* C3 witness: an NXDomain arrived first, a NoError arrived second, and the
\* one reply written is the NoError.
Wit_C3 ==
    /\ hpc = "done"
    /\ Len(arrivals) = 2
    /\ arrivals[1].ok /\ arrivals[1].code = NXDomain
    /\ arrivals[2].ok /\ arrivals[2].code = NoError
    /\ Len(sink) = 1
    /\ sink[1].ok
    /\ sink[1].reply.answers = arrivals[2].from

\* The fallback's choice among the recorded responses, in completion order.
FirstIndex(S) == CHOOSE k \in S : \A j \in S : k <= j
ExpectedFallback ==
    LET nx == { k \in DOMAIN OkArrivals : OkArrivals[k].code = NXDomain }
        sf == { k \in DOMAIN OkArrivals : OkArrivals[k].code = ServFail }
    IN  IF nx # {} THEN OkArrivals[FirstIndex(nx)]
        ELSE IF sf # {} THEN OkArrivals[FirstIndex(sf)]
        ELSE OkArrivals[1]

FallbackSends == SelectSeq(sink, LAMBDA s : s.via = "fallback")

\* C4: when every candidate task has completed, nothing was sent and a
\* response was recorded, the reply passed to the sink is the first recorded
\* NXDomain, else the first recorded ServFail, else the first recorded
\* response; a written fallback is the request's reply and its code.  With
\* a response sent or none recorded there is no fallback reply.
Thm_C4_FallbackPriority ==
    hpc \in {"finish", "done"} =>
        IF OkWrites \cap { k \in DOMAIN sink : sink[k].via = "race" } = {}
           /\ OkArrivals # <<>>
        THEN /\ Len(FallbackSends) = 1
             /\ FallbackSends[1].reply.answers = ExpectedFallback.from
             /\ FallbackSends[1].reply.code = ExpectedFallback.code
             /\ (FallbackSends[1].ok /\ hpc = "done") =>
                   /\ Cardinality(OkWrites) = 1
                   /\ info.code = ExpectedFallback.code
        ELSE FallbackSends = <<>>

\* C4 witness: a ServFail arrived, then an NXDomain; the fallback reply is
\* the NXDomain.
Wit_C4 ==
    /\ hpc = "done"
    /\ Len(OkArrivals) = 2
    /\ OkArrivals[1].code = ServFail
    /\ OkArrivals[2].code = NXDomain
    /\ Len(sink) = 1
    /\ sink[1].via = "fallback"
    /\ sink[1].ok
    /\ sink[1].reply.answers = OkArrivals[2].from

\* C5: when every candidate task failed without a message, the one reply
\* passed to the sink is a ServFail with the request id and empty sections,
\* and the ResponseInfo returned carries ServFail.
Thm_C5_AllFailedServFail ==
    (hpc = "done" /\ FannedOut /\ OkArrivals = <<>>) =>
        /\ Len(sink) = 1
        /\ sink[1].reply = [id |-> request_id, code |-> ServFail,
                            answers |-> None]
        /\ info.code = ServFail
        /\ info.id = request_id

\* C5 witness: two candidates, both failed, the request is done.
Wit_C5 ==
    /\ hpc = "done"
    /\ Cardinality(queried) = 2
    /\ Len(arrivals) = 2
    /\ OkArrivals = <<>>
    /\ request_id # 0

\* C6 as stated: when selection yields no upstream, a ServFail reply with the
\* request id is written to the sink and no upstream is queried.
Orig_C6_NoProviderServFailWritten ==
    (hpc = "done" /\ ~FannedOut) =>
        /\ arrivals = <<>>
        /\ \E k \in DOMAIN sink :
              /\ sink[k].reply.code = ServFail
              /\ sink[k].reply.id = request_id

IsSpecific(i) == dns_clients[i][1] # <<>>
SpecificMatch(i) == IsSpecific(i) /\ MatchesDomain(query_name, dns_clients[i])

\* C7: if some upstream with a non-empty include list matches the name, the
\* upstreams queried are exactly the matching specific ones and no universal
\* one; otherwise they are exactly the universal ones; an upstream with a
\* non-empty include list that does not match is never queried.  Only
\* queried upstreams complete, each once.
Thm_C7_CandidateSelection ==
    /\ hpc = "start" => queried = {}
    /\ hpc # "start" =>
          /\ (\E i \in Upstreams : SpecificMatch(i)) =>
                /\ queried = { i \in Upstreams : SpecificMatch(i) }
                /\ \A i \in queried : IsSpecific(i)
          /\ ~(\E i \in Upstreams : SpecificMatch(i)) =>
                queried = { i \in Upstreams : ~IsSpecific(i) }
          /\ \A i \in Upstreams :
                (IsSpecific(i) /\ ~SpecificMatch(i)) => i \notin queried
    /\ \A k \in DOMAIN arrivals : arrivals[k].from \in queried
    /\ \A j, k \in DOMAIN arrivals :
          arrivals[j].from = arrivals[k].from => j = k
    /\ hpc \in {"fallback", "finish", "done"} =>
          queried = { arrivals[k].from : k \in DOMAIN arrivals }

\* C7 witness: one upstream with includes that match the name, one universal
\* upstream; only the first was queried and the request is done.
Wit_C7 ==
    /\ hpc = "done"
    /\ \E i, j \in Upstreams :
          /\ SpecificMatch(i)
          /\ ~IsSpecific(j)
          /\ queried = {i}
          /\ Len(arrivals) = 1
          /\ arrivals[1].from = i

\* -------------------------------------------------------- client properties

\* C8: the holder's version never decreases, and every change of the holder
\* between disconnected and connected, in either direction, raises it by
\* exactly one.
Thm_C8_VersionMonotone ==
    [][ /\ holder'.version >= holder.version
        /\ ((holder.client = None) # (holder'.client = None)) =>
              holder'.version = holder.version + 1 ]_vars

\* C8 witness: the holder was connected, invalidated by a query and
\* connected again.
Wit_C8 ==
    /\ holder.client # None
    /\ holder.version >= 3
    /\ invalidations # <<>>

\* A call of query whose DoH query of this iteration has failed.
FailedOn(q) ==
    /\ snap[q].client # None
    /\ qpc[q] \in {"signal", "sleep"}

\* C9: a failing query clears the holder only when the holder's version is
\* the one it snapshotted, so the handle it clears is the one it used and
\* never one installed after its snapshot; queries that snapshotted the same
\* version clear the holder once between them; and the handle a query failed
\* on is no longer current.
Thm_C9_VersionedInvalidation ==
    /\ \A k \in DOMAIN invalidations :
          /\ invalidations[k].snap_version = invalidations[k].at_version
          /\ invalidations[k].cleared = invalidations[k].used
    /\ \A j, k \in DOMAIN invalidations :
          invalidations[j].snap_version = invalidations[k].snap_version
              => j = k
    /\ \A q \in Queries : FailedOn(q) => holder.version > snap[q].version

\* C9 witness: two queries snapshotted the same handle and both failed; the
\* holder was cleared once, and the handle installed since is still there.
Wit_C9 ==
    \E q1, q2 \in Queries :
        /\ q1 # q2
        /\ FailedOn(q1) /\ FailedOn(q2)
        /\ snap[q1] = snap[q2]
        /\ Len(invalidations) = 1
        /\ holder.client # None
        /\ holder.version = snap[q1].version + 2

\* The connection attempts in flight.
InFlight == { t \in DOMAIN rpc : rpc[t] = "connecting" }

\* C10: at most one connection attempt is in flight, whatever the queries
\* do, and no step of a call of query starts or ends one.
Thm_C10_OneConnectionAttempt ==
    [][ /\ Cardinality(InFlight) <= 1
        /\ Cardinality(InFlight') <= 1
        /\ InFlight' # InFlight => (qpc' = qpc /\ retries' = retries) ]_vars

\* C10 witness: a query cleared the holder, every query has sent its
\* reconnect signal, a signal is still queued, and one attempt is in flight.
Wit_C10 ==
    /\ invalidations # <<>>
    /\ \A q \in Queries : reconnect_sent[q]
    /\ reconnect_chan >= 1
    /\ Cardinality(InFlight) = 1

\* C11 as stated: a call of query performs at most 6 attempts (loop
\* iterations that snapshot the holder), and fails with max-retries-exceeded
\* once those are used up.
Orig_C11_AtMostSixAttempts ==
    \A q \in Queries :
        /\ attempts[q] <= 6
        /\ qresult[q] = "err" => attempts[q] = 6

\* C11 (amended): a call of query performs at most 7 attempts, the first one
\* and MAX_RETRIES = 6 retries; it fails with max-retries-exceeded exactly
\* when the seventh attempt has not succeeded, and never before.
Thm_C11_RetryBudget ==
    \A q \in Queries :
        /\ attempts[q] <= QUERY_MAX_RETRIES + 1
        /\ retries[q] <= QUERY_MAX_RETRIES
        /\ qresult[q] = "err" =>
              /\ attempts[q] = QUERY_MAX_RETRIES + 1
              /\ qpc[q] = "done"

\* A call that failed after seven attempts, the last of which issued a DoH
\* query on a live handle.
Wit_C11 ==
    \E q \in Queries :
        /\ qresult[q] = "err"
        /\ attempts[q] = QUERY_MAX_RETRIES + 1
        /\ snap[q].client # None

\* C15 as stated: after a network-unreachable error the reconnection delay
\* is the 5 s ceiling.
Orig_C15_JumpToFiveSeconds ==
    \A t \in ReconnectTasks :
        (rpc[t] = "sleep" /\ unreachable_seen[t]) => retry_delay[t] = 5000

\* C15 (amended): the ceiling of the reconnection delay is 3 s.  Once an
\* attempt of a run fails with a network-unreachable error the delay is
\* 3000 ms for the rest of the run; with no such error the delay before the
\* next attempt is 300 ms doubled once per failed attempt, capped at 3000 ms.
Thm_C15_ReconnectDelay ==
    \A t \in ReconnectTasks :
        rpc[t] \in {"connecting", "sleep"} =>
            IF unreachable_seen[t]
            THEN retry_delay[t] = 3000
            ELSE retry_delay[t] = Min(300 * 2 ^ retry_count[t], 3000)

\* The first attempt of a run failed with network-unreachable and the task
\* sleeps 3000 ms.
Wit_C15 ==
    \E t \in ReconnectTasks :
        /\ rpc[t] = "sleep"
        /\ unreachable_seen[t]
        /\ retry_count[t] = 0
        /\ retry_delay[t] = 3000

\* C16: one call of query sends at most one reconnect signal; the latch is
\* set exactly when the signal has been sent and stays set for the rest of
\* the call.
Thm_C16_OneSignalPerCall ==
    \A q \in Queries :
        /\ signals[q] <= 1
        /\ reconnect_sent[q] <=> signals[q] = 1
        /\ qpc[q] = "signal" => signals[q] = 0

\* A call that used its whole budget and sent one signal.
Wit_C16 ==
    \E q \in Queries :
        /\ qpc[q] = "done"
        /\ attempts[q] = QUERY_MAX_RETRIES + 1
        /\ signals[q] = 1

C18Step(t) ==
    /\ rpc[t] \in {"connecting", "sleep"} =>
          /\ retry_count[t] + 1 <= RECONNECT_MAX_RETRIES
          /\ holder = run_holder[t]
          /\ holder.client = None
    /\ (rpc[t] = "observe" /\ holder.client # None) => rpc'[t] # "connecting"
    /\ (rpc[t] = "connecting" /\ holder' # holder) =>
          /\ rpc'[t] = "recv"
          /\ holder'.client # None
    /\ (rpc[t] = "sleep" /\ rpc'[t] = "recv") =>
          /\ retry_count[t] + 1 = RECONNECT_MAX_RETRIES
          /\ holder' = run_holder[t]
          /\ holder'.client = None
    /\ (rpc[t] = "recv" /\ rpc'[t] # "recv") =>
          /\ rpc'[t] = "observe"
          /\ reconnect_chan' = reconnect_chan - 1

\* C18: a run of handle_reconnect makes no connection attempt when it finds
\* the holder connected; otherwise it makes at most 5 attempts and stops at
\* the first success; after 5 failures it returns with the holder
\* disconnected at the version the run started with; the task then starts a
\* new run when it receives a reconnect signal.
Thm_C18_ReconnectRun == [][\A t \in ReconnectTasks : C18Step(t)]_vars

\* The first run gave up at version 0, a query's signal was received, and a
\* new run is making an attempt.
Wit_C18 ==
    \E t \in ReconnectTasks :
        /\ rpc[t] = "connecting"
        /\ holder.version = 0
        /\ reconnect_chan = 0
        /\ \E q \in Queries : signals[q] = 1

\* C17 as stated: sending the reconnect signal never blocks the call of
\* query: a call that has reached the send can always take it and go on to
\* its backoff sleep, also when the channel is full.
Orig_C17_SendNeverBlocks ==
    \A q \in Queries : qpc[q] = "signal" => ENABLED SendReconnect(q)

C13_HandlerReturns == <>(hpc = "done")

\* Removal of the final dot of a fully qualified name.
StripDot(q) ==
    IF q # <<>> /\ q[Len(q)] = "." THEN SubSeq(q, 1, Len(q) - 1) ELSE q

\* q equals p, or q ends with p and the character before that suffix is ".".
LabelMatch(q, p) ==
    \/ q = p
    \/ /\ Len(q) > Len(p)
       /\ SubSeq(q, Len(q) - Len(p) + 1, Len(q)) = p
       /\ q[Len(q) - Len(p)] = "."

\* C12: for a rule set with the single include pattern p and no excludes,
\* matches_domain returns true exactly when the name, its final dot removed,
\* equals p or ends with p right after a ".".
Thm_C12_IncludeLabelBoundary ==
    (mpc = "done" /\ m_rules[2] = <<>>) =>
        (m_result <=> LabelMatch(StripDot(m_name), m_rules[1][1]))

\* The name ends with the characters of the pattern inside a label, and
\* matches_domain has returned false.
Wit_C12 ==
    /\ mpc = "done"
    /\ m_rules = <<<<Pat_a>>, <<>>>>
    /\ m_name = <<"b", "a", ".">>
    /\ ~m_result

\* C14 as stated: with a matching include pattern, the name is rejected
\* because of an exclude pattern ex only if it equals ex or ends with "."
\* followed by ex.
Orig_C14_ExcludeLabelBoundary ==
    (/\ mpc = "done"
     /\ ~m_result
     /\ LabelMatch(StripDot(m_name), m_rules[1][1]))
        => \E k \in DOMAIN m_rules[2] :
               LabelMatch(StripDot(m_name), m_rules[2][k])

\* C19: a failed send_response is never counted as the reply.
\* has_sent_response is true exactly when an upstream's response was
\* written; while none was written the loop keeps draining and sends every
\* later response that is neither ServFail nor NXDomain; when every such
\* send failed, the fallback runs over all recorded responses, those whose
\* send failed included; and when no send succeeded the ServFail reply is
\* attempted and ServFail reported.
Thm_C19_FailedSendNotCounted ==
    /\ has_sent_response <=>
          \E k \in OkWrites : sink[k].via \in {"race", "fallback"}
    /\ (hpc = "drain" /\ OkWrites = {}) =>
          /\ Len(sink) = Len(AcceptableArrivals)
          /\ \A k \in DOMAIN sink :
                sink[k].reply.answers = AcceptableArrivals[k].from
    /\ (/\ hpc \in {"finish", "done"}
        /\ RaceSends # <<>>
        /\ \A k \in DOMAIN RaceSends : ~RaceSends[k].ok) =>
          /\ Len(RaceSends) = Len(AcceptableArrivals)
          /\ Len(FallbackSends) = 1
          /\ FallbackSends[1].reply.answers = ExpectedFallback.from
    /\ (hpc = "done" /\ sink # <<>> /\ OkWrites \subseteq {Len(sink)}
        /\ ~sink[1].ok /\ Len(sink) > 1) =>
          /\ info.code = sink[Len(sink)].reply.code
          /\ \A k \in 1 .. Len(sink) - 1 : ~sink[k].ok
    /\ (hpc = "done" /\ FannedOut /\ OkWrites = {}) =>
          /\ sink[Len(sink)].via = "servfail"
          /\ info.code = ServFail

\* The send of the first forwardable response failed, no other forwardable
\* response came, and the fallback wrote another recorded response, whose
\* code is reported.
Wit_C19 ==
    /\ hpc = "done"
    /\ Len(sink) = 2
    /\ sink[1].via = "race" /\ ~sink[1].ok
    /\ sink[2].via = "fallback" /\ sink[2].ok
    /\ sink[2].reply.code # sink[1].reply.code
    /\ info.code = sink[2].reply.code

\* C20: the ResponseInfo returned carries the code of the reply that was
\* written, and ServFail when no reply was written.
Thm_C20_InfoCodeIsWrittenCode ==
    hpc = "done" =>
        /\ info.id = request_id
        /\ IF OkWrites # {}
           THEN \A k \in OkWrites : info.code = sink[k].reply.code
           ELSE info.code = ServFail

\* Two responses with different codes were recorded; the second was written
\* and its code is the one reported.
Wit_C20 ==
    /\ hpc = "done"
    /\ Len(OkArrivals) = 2
    /\ OkArrivals[1].code # OkArrivals[2].code
    /\ \E k \in OkWrites :
          /\ sink[k].reply.answers = OkArrivals[2].from
          /\ info.code = OkArrivals[2].code

\* C21: handle_request leaves the fan-in loop, and so returns, only after
\* every candidate task has completed, whether or not a reply was sent
\* meanwhile; and the response log holds every response that arrived, in
\* arrival order, sent or not.
Thm_C21_DrainsAllCandidates ==
    /\ Len(responses) = Len(OkArrivals)
    /\ \A k \in DOMAIN responses :
          /\ responses[k].name = OkArrivals[k].from
          /\ responses[k].code = OkArrivals[k].code
    /\ hpc = "drain" => remaining # {}
    /\ (hpc \in {"fallback", "finish", "done"} /\ FannedOut) =>
          /\ remaining = {}
          /\ Len(arrivals) = Cardinality(queried)
          /\ { arrivals[k].from : k \in DOMAIN arrivals } = queried

\* The first response was written; the second candidate's response came
\* afterwards and is in the log; the request is done.
Wit_C21 ==
    /\ hpc = "done"
    /\ Len(sink) = 1
    /\ sink[1].ok
    /\ sink[1].via = "race"
    /\ Len(responses) = 2
    /\ sink[1].reply.answers = responses[1].name
    /\ Acceptable(responses[2].code)

C24Parity(h) == h.client # None <=> h.version % 2 = 1

\* C24: the holder carries a handle exactly when its version is odd; every
\* change of the holder raises the version by one and flips it between
\* disconnected and connected.
Thm_C24_HandleIffOddVersion ==
    [][/\ C24Parity(holder)
       /\ C24Parity(holder')
       /\ holder' # holder =>
             /\ holder'.version = holder.version + 1
             /\ (holder.client = None) <=> (holder'.client # None)]_vars

\* The holder was connected, invalidated and connected again.
Wit_C24 ==
    /\ holder.version = 3
    /\ holder.client # None
    /\ Len(invalidations) = 1

C25Step(t) ==
    /\ rpc[t] \in {"connecting", "sleep"} =>
          /\ holder = run_holder[t]
          /\ holder.client = None
    /\ (rpc[t] \in {"connecting", "sleep"} /\ rpc'[t] \in {"connecting", "sleep"})
          => holder' = holder
    /\ (rpc[t] = "connecting" /\ holder'.client # None) =>
          /\ holder.client = None
          /\ holder.version = run_holder[t].version
          /\ holder'.version = holder.version + 1

\* C25: from the observation of a disconnected holder by handle_reconnect
\* to its store no call of query changes the holder, so the store finds it
\* disconnected at the observed version k and leaves it connected at k + 1.
Thm_C25_StoreOnDisconnected == [][\A t \in ReconnectTasks : C25Step(t)]_vars

\* A call failed on a handle of version 1 that another call had already
\* invalidated: its version test failed, and the reconnection task stored
\* the handle of version 3 over the disconnected holder of version 2.
Wit_C25 ==
    /\ holder.version = 3
    /\ holder.client # None
    /\ Len(invalidations) = 1
    /\ \E q \in Queries :
          /\ invalidations[1].by # q
          /\ snap[q].version = 1
          /\ snap[q].client # None
          /\ qpc[q] \in {"signal", "sleep"}

C22Step(q) ==
    /\ (qpc[q] = "loop" /\ qpc'[q] # "loop") =>
          /\ snap'[q] = holder
          /\ holder.client # None => qpc'[q] = "querying"
    /\ qpc[q] = "querying" => snap[q].client # None
    /\ (qpc[q] = "querying" /\ qresult'[q] = "ok") => qpc'[q] = "done"
    /\ qresult'[q] = "err" => attempts'[q] = QUERY_MAX_RETRIES + 1

\* C22: every iteration of a call of query takes a fresh snapshot of the
\* holder, so an iteration that follows the installation of a new handle
\* issues its DoH query on that handle; an answer to it is what the call
\* returns; and the call gives up only when its budget is used up, not on
\* an earlier failure.
Thm_C22_RecoversWithinCall == [][\A q \in Queries : C22Step(q)]_vars

\* The call failed on the handle of version 1, invalidated it and
\* signalled; the reconnection task installed the handle of version 3; a
\* later iteration of the same call used it and the call returned Ok.
Wit_C22 ==
    \E q \in Queries :
        /\ qresult[q] = "ok"
        /\ Len(invalidations) = 1
        /\ invalidations[1].by = q
        /\ invalidations[1].at_version = 1
        /\ signals[q] = 1
        /\ snap[q].version = 3
        /\ snap[q].client # None
        /\ attempts[q] <= QUERY_MAX_RETRIES

\* The pattern in lower case.
LowerChar(c) == IF c = "A" THEN "a" ELSE c
LowerString(p) == [k \in DOMAIN p |-> LowerChar(p[k])]
LowerRules(rules) ==
    << [k \in DOMAIN rules[1] |-> LowerString(rules[1][k])],
       [k \in DOMAIN rules[2] |-> LowerString(rules[2][k])] >>

\* C23 as stated: the result of matches_domain does not depend on the letter
\* case of the patterns: it is the result for the same patterns written in
\* lower case.
Orig_C23_CaseInsensitive ==
    mpc = "done" => m_result = MatchesDomain(m_name, LowerRules(m_rules))

====
